---- MODULE Spec2Model ----
(***************************************************************************)
(* Verification model of the djedops dashboard logic:                      *)
(*   - the workflow graph executor      (frontend/lib/workflow-engine.ts)  *)
(*   - the arbitrage opportunity tracker (ArbitragePage, useDexPrice)      *)
(*   - the derived-metrics / status classification (djed/state route,      *)
(*     SimulationModal)                                                    *)
(*   - the /api/djed route handler, endpoints oracle/price and djed/state  *)
(*   - the client-side data hook (fetchWithRetry, fetchLiveData)           *)
(* Prices are integers in thousandths of a dollar; computed amounts are    *)
(* exact fractions.  Reserve ratios are in percent, time in milliseconds,  *)
(* ERG supply in thousands of ERG.                                         *)
(***************************************************************************)
EXTENDS Integers, Sequences, FiniteSets, TLC

VARIABLES
    \* ---- workflow executor (one run of executeWorkflow) ----
    workflow,        \* the Workflow argument: [nodes, connections]
    protocolStatus,  \* the protocolStatus argument
    wfPc,            \* position of the run
    realTimeData,    \* the snapshot returned by fetchRealTimeData
    callStack,       \* pending for-loops of executeWorkflow / executeNode
    executedNodes,   \* the executedNodes set
    nodeExecutions,  \* the nodeExecutions array
    logStatus,       \* status of the returned log ("none" before return)
    fetchCount,      \* number of calls of fetchRealTimeData made by the run
    wfClock,         \* Date.now() as the run reads it, in ms since its start
    \* ---- arbitrage tracker (ArbitragePage + useDexPrice) ----
    now,                 \* the browser clock, Date.now(), in ms
    hook,                \* what useDexPrice returned at the last render
    opportunityHistory,  \* the opportunityHistory state, newest first
    ticks,               \* number of runs of the tracker's effect so far
    sigRun,              \* length of the current run of consecutive
                         \* significant-change ticks
    firstDetected,       \* clock value at which the head entry was first
                         \* prepended (Absent while the history is empty)
    \* ---- one application of a pure calculation ----
    calcIn,          \* the arguments
    calcOut,         \* the result (NoResult before the call)
    \* ---- one request to the /api/djed route handler ----
    route,           \* endpoint, position, price found, sources queried, response
    \* ---- one call of fetchLiveData (useDjedData) ----
    live,            \* position, the three fetchWithRetry calls, the result
    \* ---- one mounted SimulationModal ----
    modal,           \* props, component state, the store's scenario, and the
                     \* calls made to the parent's callbacks
    \* ---- one mounted useAppletRegistry hook ----
    registry         \* hook state and the loadApplets calls in flight

wfVars == <<workflow, protocolStatus, wfPc, realTimeData, callStack,
            executedNodes, nodeExecutions, logStatus, fetchCount, wfClock>>

arbVars == <<now, hook, opportunityHistory, ticks, sigRun, firstDetected>>

calcVars == <<calcIn, calcOut>>

vars == <<wfVars, arbVars, calcVars, route, live, modal, registry>>

notWfVars == <<arbVars, calcVars, route, live, modal, registry>>

notArbVars == <<wfVars, calcVars, route, live, modal, registry>>

notCalcVars == <<wfVars, arbVars, route, live, modal, registry>>

notRouteVars == <<wfVars, arbVars, calcVars, live, modal, registry>>

notLiveVars == <<wfVars, arbVars, calcVars, route, modal, registry>>

notModalVars == <<wfVars, arbVars, calcVars, route, live, registry>>

notRegistryVars == <<wfVars, arbVars, calcVars, route, live, modal>>

-----------------------------------------------------------------------------
(* Generic helpers *)

Absent == -1   \* an undefined / missing numeric field

Abs(x) == IF x < 0 THEN -x ELSE x

Take(s, n) == SubSeq(s, 1, IF Len(s) < n THEN Len(s) ELSE n)

\* JavaScript truthiness of an optional number: undefined and 0 are falsy
Falsy(x) == x = Absent \/ x = 0

-----------------------------------------------------------------------------
(* JavaScript numbers: exact fractions n/d, plus Infinity, -Infinity, NaN.  *)
(* Rounding of IEEE doubles is not modelled.                                *)

Sign(x) == IF x < 0 THEN -1 ELSE IF x > 0 THEN 1 ELSE 0

RECURSIVE GCD(_, _)
GCD(a, b) == IF b = 0 THEN a ELSE GCD(b, a % b)

Frac(n, d) ==
    LET g == GCD(Abs(n), Abs(d))
    IN  [k |-> "fin", n |-> (Sign(d) * n) \div g, d |-> Abs(d) \div g]

Num(i) == [k |-> "fin", n |-> i, d |-> 1]

NaN == [k |-> "nan", n |-> 0, d |-> 0]

Inf(sign) == [k |-> "inf", n |-> sign, d |-> 0]

Undefined == [k |-> "undefined", n |-> 0, d |-> 0]

\* a price held as an integer number of thousandths of a dollar
Price(p) == Frac(p, 1000)

\* common factors are cancelled before multiplying, to keep the integers small
NMul(a, b) ==
    IF a.k = "nan" \/ b.k = "nan" THEN NaN
    ELSE IF a.k = "inf" \/ b.k = "inf"
         THEN (IF a.n = 0 \/ b.n = 0 THEN NaN ELSE Inf(Sign(a.n) * Sign(b.n)))
    ELSE LET g1 == GCD(Abs(a.n), b.d)
             g2 == GCD(Abs(b.n), a.d)
         IN  Frac((a.n \div g1) * (b.n \div g2), (a.d \div g2) * (b.d \div g1))

NDiv(a, b) ==
    IF a.k = "nan" \/ b.k = "nan" THEN NaN
    ELSE IF a.k = "inf" THEN (IF b.k = "inf" THEN NaN
                              ELSE Inf(a.n * (IF b.n < 0 THEN -1 ELSE 1)))
    ELSE IF b.k = "inf" THEN Num(0)
    ELSE IF b.n = 0 THEN (IF a.n = 0 THEN NaN ELSE Inf(Sign(a.n)))
    ELSE NMul(a, Frac(b.d, b.n))

NNeg(a) == [a EXCEPT !.n = -a.n]

NAdd(a, b) ==
    IF a.k = "nan" \/ b.k = "nan" THEN NaN
    ELSE IF a.k = "inf" /\ b.k = "inf" THEN (IF a.n = b.n THEN a ELSE NaN)
    ELSE IF a.k = "inf" THEN a
    ELSE IF b.k = "inf" THEN b
    ELSE Frac(a.n * b.d + b.n * a.d, a.d * b.d)

NSub(a, b) == NAdd(a, NNeg(b))

NAbs(a) == [a EXCEPT !.n = Abs(a.n)]

\* a < b; every comparison with NaN is false
NLess(a, b) ==
    IF a.k = "nan" \/ b.k = "nan" THEN FALSE
    ELSE IF a.k = "inf" THEN a.n < 0 /\ ~(b.k = "inf" /\ b.n < 0)
    ELSE IF b.k = "inf" THEN b.n > 0
    ELSE a.n * b.d < b.n * a.d

NLeq(a, b) == a.k # "nan" /\ b.k # "nan" /\ ~NLess(b, a)

\* a % m for a finite a >= 0 and an integer m > 0
NMod(a, m) == Frac(a.n % (m * a.d), a.d)

\* Math.max(0, x)
MathMax0(x) == IF x.k = "nan" THEN NaN ELSE IF NLess(x, Num(0)) THEN Num(0) ELSE x

-----------------------------------------------------------------------------
(* Workflow graph executor *)

MaxNodes == 4

NodeNames == <<"A", "B", "C", "D", "E", "F">>

PolicyNodeId == "POLICY_ENFORCEMENT"

NoCondition == [type |-> "none", value |-> 0]

WfConditions == {NoCondition, [type |-> "dsi_below", value |-> 400]}

\* connections a workflow may hold, in the order they are declared
CandidateEdges ==
    << [from |-> "A", to |-> "B"], [from |-> "A", to |-> "C"],
       [from |-> "B", to |-> "D"], [from |-> "C", to |-> "D"],
       [from |-> "D", to |-> "A"], [from |-> "B", to |-> "B"] >>

RECURSIVE PickEdges(_, _)
PickEdges(i, chosen) ==
    IF i > Len(CandidateEdges) THEN <<>>
    ELSE (IF i \in chosen THEN <<CandidateEdges[i]>> ELSE <<>>)
         \o PickEdges(i + 1, chosen)

Workflows ==
    { [nodes |-> [i \in 1..n |-> [id |-> NodeNames[i], condition |-> conds[i]]],
       connections |-> PickEdges(1, chosen)] :
         n \in 0..MaxNodes,
         conds \in [1..MaxNodes -> WfConditions],
         chosen \in SUBSET (1..Len(CandidateEdges)) }

ProtocolStatuses == {"OPTIMAL", "CRITICAL", "undefined"}

\* upstream replies seen by fetchRealTimeData; Fail stands for a rejected
\* fetch, a non-ok response or a body without success/data
Fail == [ok |-> FALSE, reserveRatio |-> Absent, djedPrice |-> Absent,
         price |-> Absent, count |-> Absent]

DjedReplies ==
    {Fail} \cup { [Fail EXCEPT !.ok = TRUE, !.reserveRatio = r, !.djedPrice = 1000] :
                    r \in {350, 525} }

PriceReplies == {Fail, [Fail EXCEPT !.ok = TRUE, !.price = 1450]}

FeedReplies == {Fail, [Fail EXCEPT !.ok = TRUE, !.count = 12]}

NoData == [reserveRatio |-> Absent, ergPrice |-> Absent,
           djedPrice |-> Absent, transactions |-> Absent]

fetchRealTimeData(djed, price, feed) ==
    [reserveRatio |-> IF djed.ok THEN djed.reserveRatio ELSE Absent,
     djedPrice    |-> IF djed.ok THEN djed.djedPrice ELSE Absent,
     ergPrice     |-> IF price.ok THEN price.price ELSE Absent,
     transactions |-> IF feed.ok THEN feed.count ELSE Absent]

\* `condition.value || d`
OrDefault(v, d) == IF Falsy(v) THEN d ELSE v

\* variant: no guard on missing metrics
evaluateConditionUnguarded(condition, data) ==
    CASE condition.type = "dsi_below"   -> data.reserveRatio < OrDefault(condition.value, 400)
      [] condition.type = "dsi_above"   -> data.reserveRatio > OrDefault(condition.value, 500)
      [] condition.type = "price_below" -> data.djedPrice < OrDefault(condition.value, 950)
      [] condition.type = "price_above" -> data.djedPrice > OrDefault(condition.value, 1050)
      [] OTHER -> TRUE

evaluateCondition(condition, data) ==
    LET dsi   == data.reserveRatio
        price == data.djedPrice
    IN  IF Falsy(dsi) \/ Falsy(price) THEN FALSE
        ELSE CASE condition.type = "dsi_below"   -> dsi < OrDefault(condition.value, 400)
               [] condition.type = "dsi_above"   -> dsi > OrDefault(condition.value, 500)
               [] condition.type = "price_below" -> price < OrDefault(condition.value, 950)
               [] condition.type = "price_above" -> price > OrDefault(condition.value, 1050)
               [] OTHER -> TRUE

\* variant: conditions are ignored
ShouldExecuteAlways(node, data) == TRUE

\* executeNode: `let shouldExecute = true; if (node.condition && ...)`
ShouldExecute(node, data) ==
    IF node.condition # NoCondition /\ node.condition.type # "always"
    THEN evaluateCondition(node.condition, data)
    ELSE TRUE

\* generateOutput, abstracted to the kind of record it returns
generateOutput(data) ==
    IF Falsy(data.reserveRatio) \/ Falsy(data.ergPrice) THEN "error" ELSE "data"

NodeIdsOf(wf) == {wf.nodes[i].id : i \in 1..Len(wf.nodes)}

\* workflow.nodes.find(n => n.id === id), for an id that exists
FindNode(wf, id) ==
    wf.nodes[CHOOSE i \in 1..Len(wf.nodes) :
                /\ wf.nodes[i].id = id
                /\ \A j \in 1..(i - 1) : wf.nodes[j].id # id]

\* variant: no fallback to the first declared node
EntryNodesNoFallback(wf) ==
    SelectSeq(wf.nodes,
              LAMBDA n : n.id \notin {wf.connections[i].to : i \in 1..Len(wf.connections)})

EntryNodes(wf) ==
    LET incomingConnections == {wf.connections[i].to : i \in 1..Len(wf.connections)}
        entryNodes == SelectSeq(wf.nodes, LAMBDA n : n.id \notin incomingConnections)
    IN  IF Len(entryNodes) = 0 /\ Len(wf.nodes) > 0
        THEN <<wf.nodes[1]>>
        ELSE entryNodes

\* variant: the connected nodes are visited last connection first
ConnectedNodesReversed(wf, id) ==
    LET out   == SelectSeq(wf.connections, LAMBDA c : c.from = id)
        found == SelectSeq(out, LAMBDA c : c.to \in NodeIdsOf(wf))
    IN  [i \in 1..Len(found) |-> FindNode(wf, found[Len(found) + 1 - i].to)]

ConnectedNodes(wf, id) ==
    LET out   == SelectSeq(wf.connections, LAMBDA c : c.from = id)
        found == SelectSeq(out, LAMBDA c : c.to \in NodeIdsOf(wf))
    IN  [i \in 1..Len(found) |-> FindNode(wf, found[i].to)]

\* variant: the gate blocks every status other than OPTIMAL
PolicyBlocksNotOptimal(status) == status # "OPTIMAL"

\* variant: no gate
PolicyBlocksNever(status) == FALSE

PolicyBlocks(status) == status = "CRITICAL"

\* variant: no visited-set guard
AlreadyExecutedNever(id, executed) == FALSE

AlreadyExecuted(id, executed) == id \in executed

\* variant: recursion also after a skipped node
SuccessorsAlways(wf, node, should) == ConnectedNodes(wf, node.id)

\* the nodes executeNode recurses into after it recorded `node`
Successors(wf, node, should) ==
    IF should THEN ConnectedNodes(wf, node.id) ELSE <<>>

blockedExecution ==
    [nodeId |-> PolicyNodeId, status |-> "failed",
     startTime |-> wfClock, endTime |-> wfClock, output |-> "null"]

\* the simulated execution time of a node is 300 + Math.random() * 700 ms;
\* the model takes the shortest one
SimulatedDelayMs == 300

\* variant: a node whose output reports an error is recorded failed
ExecutionStatusFailsOnError(shouldExecute, output) ==
    IF ~shouldExecute THEN "skipped"
    ELSE IF output = "error" THEN "failed" ELSE "success"

\* `status: shouldExecute ? 'success' : 'skipped'`; the output has no part
ExecutionStatus(shouldExecute, output) ==
    IF shouldExecute THEN "success" ELSE "skipped"

\* variant: a skipped node fails the run
LogStatusStrict(executions) ==
    IF \E i \in 1..Len(executions) : executions[i].status # "success"
    THEN "failed" ELSE "completed"

LogStatus(executions) ==
    IF \E i \in 1..Len(executions) : executions[i].status = "failed"
    THEN "failed" ELSE "completed"

WfInit ==
    /\ workflow \in Workflows
    /\ protocolStatus \in ProtocolStatuses
    /\ wfPc = "pending"
    /\ realTimeData = NoData
    /\ callStack = <<>>
    /\ executedNodes = {}
    /\ nodeExecutions = <<>>
    /\ logStatus = "none"
    /\ fetchCount = 0
    /\ wfClock = 0

\* executeWorkflow up to the first await: the policy gate
PolicyCheck ==
    /\ wfPc = "pending"
    /\ IF PolicyBlocks(protocolStatus)
       THEN /\ nodeExecutions' = <<blockedExecution>>
            /\ logStatus' = "failed"
            /\ wfPc' = "blocked"
       ELSE /\ wfPc' = "fetching"
            /\ UNCHANGED <<nodeExecutions, logStatus>>
    /\ UNCHANGED <<workflow, protocolStatus, realTimeData, callStack, executedNodes,
                   fetchCount, wfClock>>
    /\ UNCHANGED notWfVars

\* `await fetchRealTimeData()` resolves; the entry nodes are computed
FetchData ==
    /\ wfPc = "fetching"
    /\ \E djed \in DjedReplies, price \in PriceReplies, feed \in FeedReplies :
          realTimeData' = fetchRealTimeData(djed, price, feed)
    /\ fetchCount' = fetchCount + 1
    /\ callStack' = <<EntryNodes(workflow)>>
    /\ wfPc' = "running"
    /\ UNCHANGED <<workflow, protocolStatus, executedNodes, nodeExecutions, logStatus,
                   wfClock>>
    /\ UNCHANGED notWfVars

\* executeNode(node) is called and runs its body
ExecuteNode ==
    /\ wfPc = "running"
    /\ callStack # <<>>
    /\ Head(callStack) # <<>>
    /\ LET node   == Head(Head(callStack))
           rest   == <<Tail(Head(callStack))>> \o Tail(callStack)
           should == ShouldExecute(node, realTimeData)
           output == IF should THEN generateOutput(realTimeData) ELSE "null"
           nodeStart == wfClock
       IN  /\ ~AlreadyExecuted(node.id, executedNodes)
           /\ wfClock' = nodeStart + SimulatedDelayMs
           /\ nodeExecutions' = Append(nodeExecutions,
                 [nodeId    |-> node.id,
                  status    |-> ExecutionStatus(should, output),
                  startTime |-> nodeStart,
                  endTime   |-> wfClock',
                  output    |-> output])
           /\ executedNodes' = executedNodes \cup {node.id}
           /\ callStack' = <<Successors(workflow, node, should)>> \o rest
    /\ UNCHANGED <<workflow, protocolStatus, wfPc, realTimeData, logStatus, fetchCount>>
    /\ UNCHANGED notWfVars

\* executeNode(node) is called for a node already executed: early return
SkipVisited ==
    /\ wfPc = "running"
    /\ callStack # <<>>
    /\ Head(callStack) # <<>>
    /\ AlreadyExecuted(Head(Head(callStack)).id, executedNodes)
    /\ callStack' = <<Tail(Head(callStack))>> \o Tail(callStack)
    /\ UNCHANGED <<workflow, protocolStatus, wfPc, realTimeData, executedNodes,
                   nodeExecutions, logStatus, fetchCount, wfClock>>
    /\ UNCHANGED notWfVars

\* a for-loop over connected nodes is exhausted: executeNode returns
ReturnNode ==
    /\ wfPc = "running"
    /\ Len(callStack) > 1
    /\ Head(callStack) = <<>>
    /\ callStack' = Tail(callStack)
    /\ UNCHANGED <<workflow, protocolStatus, wfPc, realTimeData, executedNodes,
                   nodeExecutions, logStatus, fetchCount, wfClock>>
    /\ UNCHANGED notWfVars

\* the loop over entry nodes is exhausted: the log is built and returned
ReturnLog ==
    /\ wfPc = "running"
    /\ callStack = << <<>> >>
    /\ callStack' = <<>>
    /\ logStatus' = LogStatus(nodeExecutions)
    /\ wfPc' = "done"
    /\ UNCHANGED <<workflow, protocolStatus, realTimeData, executedNodes, nodeExecutions,
                   fetchCount, wfClock>>
    /\ UNCHANGED notWfVars

WfNext ==
    \/ PolicyCheck
    \/ FetchData
    \/ ExecuteNode
    \/ SkipVisited
    \/ ReturnNode
    \/ ReturnLog

-----------------------------------------------------------------------------
(* useDexPrice: effective prices, spread and signal *)

DEMO_DEX_PRICE == 1020

DEFAULT_PROTOCOL_PRICE == 1000

MINT_THRESHOLD_PCT == Frac(1, 2)

REDEEM_THRESHOLD_PCT == Frac(-1, 2)

NoDexData == [present |-> FALSE, success |-> FALSE, price |-> 0]

NoDjedData == [present |-> FALSE, mintPrice |-> 0]

DexReply(ok, p) == [present |-> TRUE, success |-> ok, price |-> p]

DjedReply(p) == [present |-> TRUE, mintPrice |-> p]

EffectiveDexPrice(isDemoMode, dexData) ==
    IF isDemoMode THEN DEMO_DEX_PRICE
    ELSE IF dexData.present /\ dexData.success THEN dexData.price
    ELSE 0

ProtocolPrice(isDemoMode, djedData) ==
    IF ~isDemoMode /\ djedData.present THEN djedData.mintPrice
    ELSE DEFAULT_PROTOCOL_PRICE

SpreadPercent(spread, protocolPrice) ==
    IF protocolPrice > 0
    THEN NMul(NDiv(Price(spread), Price(protocolPrice)), Num(100))
    ELSE Num(0)

\* variant: thresholds exclusive
SignalOfStrict(spreadPercent) ==
    IF NLess(MINT_THRESHOLD_PCT, spreadPercent) THEN "MINT DJED"
    ELSE IF NLess(spreadPercent, REDEEM_THRESHOLD_PCT) THEN "REDEEM DJED"
    ELSE "NO CLEAR EDGE"

SignalOf(spreadPercent) ==
    IF NLeq(MINT_THRESHOLD_PCT, spreadPercent) THEN "MINT DJED"
    ELSE IF NLeq(spreadPercent, REDEEM_THRESHOLD_PCT) THEN "REDEEM DJED"
    ELSE "NO CLEAR EDGE"

useDexPrice(isDemoMode, dexData, djedData) ==
    LET effectiveDexPrice == EffectiveDexPrice(isDemoMode, dexData)
        protocolPrice     == ProtocolPrice(isDemoMode, djedData)
        spread            == effectiveDexPrice - protocolPrice
        spreadPercent     == SpreadPercent(spread, protocolPrice)
    IN  [dexPrice      |-> effectiveDexPrice,
         protocolPrice |-> protocolPrice,
         spread        |-> spread,
         spreadPercent |-> spreadPercent,
         signal        |-> SignalOf(spreadPercent)]

-----------------------------------------------------------------------------
(* calculateNetProfit *)

\* process.env defaults
DefaultEnv ==
    [DEX_FEE_PCT          |-> Frac(3, 1000),
     SLIPPAGE_PCT         |-> Frac(5, 1000),
     GAS_COST_USD         |-> Frac(1, 2),
     DEFAULT_TRADE_AMOUNT |-> Num(1000)]

\* variant: no floor at zero
NetOfUnfloored(grossProfit, totalCosts) == NSub(grossProfit, totalCosts)

\* `Math.max(0, grossProfit - totalCosts)`
NetOf(grossProfit, totalCosts) == MathMax0(NSub(grossProfit, totalCosts))

calculateNetProfit(dexPrice, protocolPrice, spread, tradeAmount, env) ==
    LET amount       == IF tradeAmount = Undefined THEN env.DEFAULT_TRADE_AMOUNT
                        ELSE tradeAmount
        tokensTraded == NDiv(amount, dexPrice)
        grossProfit  == NMul(tokensTraded, NAbs(spread))
        dexFee       == NMul(amount, env.DEX_FEE_PCT)
        slippageCost == NMul(amount, env.SLIPPAGE_PCT)
        totalCosts   == NAdd(NAdd(dexFee, slippageCost), env.GAS_COST_USD)
    IN  NetOf(grossProfit, totalCosts)

-----------------------------------------------------------------------------
(* ArbitragePage: the opportunity history *)

MaxHistory == 20

SameOpportunityMs == 60000

ExpiryMs == 300000

SpreadDeltaPct == Frac(1, 10)

newOpportunity(h, t) ==
    [id              |-> t,
     timestamp       |-> t,
     signal          |-> h.signal,
     dexPrice        |-> h.dexPrice,
     protocolPrice   |-> h.protocolPrice,
     spreadPercent   |-> h.spreadPercent,
     potentialProfit |-> calculateNetProfit(Price(h.dexPrice), Price(h.protocolPrice),
                                            Price(h.spread), Undefined, DefaultEnv),
     status          |-> "detected"]

\* the effect's guard: a signal exists and the spread is significant
HasOpportunity(h) ==
    h.signal # "NO CLEAR EDGE" /\ NLeq(MINT_THRESHOLD_PCT, NAbs(h.spreadPercent))

isSignificantChange(prev, h, t) ==
    IF prev = <<>> THEN TRUE
    ELSE IF NLess(SpreadDeltaPct, NAbs(NSub(prev[1].spreadPercent, h.spreadPercent)))
         THEN TRUE
         ELSE t - prev[1].timestamp > SameOpportunityMs

\* variant: no cap on the history
KeepLastUncapped(list) == list

\* `.slice(0, 20)`
KeepLast(list) == Take(list, MaxHistory)

\* the .map of the significant-change branch
ExpireOld(list, t) ==
    [i \in 1..Len(list) |->
        IF t - list[i].timestamp > ExpiryMs /\ list[i].status = "detected"
        THEN [list[i] EXCEPT !.status = "expired"]
        ELSE list[i]]

\* variant: only the head entry is voided
ExpireAllHeadOnly(list) ==
    [i \in 1..Len(list) |->
        IF i = 1 THEN [list[i] EXCEPT !.status = "expired"] ELSE list[i]]

\* the .map of the no-signal branch
ExpireAll(list) ==
    [i \in 1..Len(list) |->
        IF list[i].status = "detected"
        THEN [list[i] EXCEPT !.status = "expired"]
        ELSE list[i]]

\* the updater passed to setOpportunityHistory when an opportunity exists
UpdateHistory(prev, h, t) ==
    IF isSignificantChange(prev, h, t)
    THEN ExpireOld(KeepLast(<<newOpportunity(h, t)>> \o prev), t)
    ELSE <<newOpportunity(h, t)>> \o Tail(prev)

\* one run of the effect with the hook values h at time t
EffectHistory(prev, h, t) ==
    IF HasOpportunity(h) THEN UpdateHistory(prev, h, t) ELSE ExpireAll(prev)

IdleHook == useDexPrice(FALSE, NoDexData, NoDjedData)

ArbInit ==
    /\ now = 0
    /\ hook = IdleHook
    /\ opportunityHistory = <<>>
    /\ ticks = 0
    /\ sigRun = 0
    /\ firstDetected = Absent

\* useDexPrice re-renders with new data and the effect runs
Tick(isDemoMode, dexData, djedData) ==
    LET h == useDexPrice(isDemoMode, dexData, djedData)
    IN  /\ hook' = h
        /\ opportunityHistory' = EffectHistory(opportunityHistory, h, now)
        /\ ticks' = ticks + 1
        /\ sigRun' = IF HasOpportunity(h) /\ isSignificantChange(opportunityHistory, h, now)
                     THEN sigRun + 1 ELSE 0
        /\ firstDetected' = IF HasOpportunity(h) /\ isSignificantChange(opportunityHistory, h, now)
                            THEN now ELSE firstDetected

MaxTicks == 4

\* instants at which the clock is observed
Instants == {0, 240000, 299000, 300000, 301000}

DexPrices == {1002, 1005, 1006}

DexReplies == {NoDexData} \cup {DexReply(TRUE, p) : p \in DexPrices}

DjedPriceReplies == {NoDjedData, DjedReply(1000)}

ArbTick ==
    /\ ticks < MaxTicks
    /\ \E isDemoMode \in BOOLEAN, dexData \in DexReplies, djedData \in DjedPriceReplies :
          Tick(isDemoMode, dexData, djedData)
    /\ UNCHANGED <<now, notArbVars>>

ClockAdvance ==
    /\ \E t \in Instants : t > now /\ now' = t
    /\ UNCHANGED <<hook, opportunityHistory, ticks, sigRun, firstDetected, notArbVars>>

ArbNext == ArbTick \/ ClockAdvance

\* the polling regime: the DEX price is refreshed at a constant interval and
\* every refresh moves the spread enough to count as a significant change
MaxPolls == 27

PollIntervals == {5000, 10000, 15000, 20000, 30000, 45000}

PollTick ==
    /\ ticks < MaxPolls
    /\ \E dt \in PollIntervals :
          /\ now = ticks * dt
          /\ now' = now + dt
    /\ \E p \in {1005, 1007} :
          LET h == useDexPrice(FALSE, DexReply(TRUE, p), DjedReply(1000))
          IN  /\ isSignificantChange(opportunityHistory, h, now')
              /\ hook' = h
              /\ opportunityHistory' = EffectHistory(opportunityHistory, h, now')
              /\ ticks' = ticks + 1
              /\ sigRun' = sigRun + 1
              /\ firstDetected' = now'
    /\ UNCHANGED notArbVars

PollNext == PollTick

\* the refresh regime: the DEX price is refreshed at a constant interval of
\* less than a minute and, after the first detection, never moves the spread
\* by more than 0.1 points, so every later tick refreshes the head in place
MaxRefreshes == 32

RefreshIntervals == {10000, 15000, 20000, 30000, 45000, 59000}

RefreshTick ==
    /\ ticks < MaxRefreshes
    /\ \E dt \in RefreshIntervals :
          /\ now = ticks * dt
          /\ now' = now + dt
    /\ \E p \in {1005, 1006} :
          LET h == useDexPrice(FALSE, DexReply(TRUE, p), DjedReply(1000))
              significant == isSignificantChange(opportunityHistory, h, now')
          IN  /\ ticks > 0 => ~significant
              /\ hook' = h
              /\ opportunityHistory' = EffectHistory(opportunityHistory, h, now')
              /\ ticks' = ticks + 1
              /\ sigRun' = IF significant THEN sigRun + 1 ELSE 0
              /\ firstDetected' = IF significant THEN now' ELSE firstDetected
    /\ UNCHANGED notArbVars

RefreshNext == RefreshTick

-----------------------------------------------------------------------------
(* Status classification *)

\* variant: the WARNING band excludes its lower boundary
DjedStateStatusOpenBand(reserveRatio) ==
    IF NLeq(Num(400), reserveRatio) THEN "OPTIMAL"
    ELSE IF NLess(Num(200), reserveRatio) THEN "WARNING"
    ELSE "CRITICAL"

\* the status field of the djed/state payload
DjedStateStatus(reserveRatio) ==
    IF NLeq(Num(400), reserveRatio) THEN "OPTIMAL"
    ELSE IF NLeq(Num(200), reserveRatio) THEN "WARNING"
    ELSE "CRITICAL"

\* lib/calculations.determineSystemStatus, as the classification of section 8
determineSystemStatus(ratio) ==
    IF NLeq(Num(400), ratio) THEN "OPTIMAL"
    ELSE IF NLess(ratio, Num(200)) THEN "CRITICAL"
    ELSE "WARNING"

-----------------------------------------------------------------------------
(* The /api/djed route handler: endpoints oracle/price and djed/state *)

\* what a price source yields: Absent when the request rejects, times out,
\* is not ok or its body holds no price; otherwise the price in the body
PriceSourceReplies == {Absent, 0, 500, 1450, 1500, 2000}

FALLBACK_ERG_PRICE == 1450

\* ERG supply, counted in thousands of ERG (the code's default is 97739924)
DEFAULT_SUPPLY == 97740

\* the /info reply after `.then(r => r.json()).catch(() => null)`:
\* Absent for null, otherwise the supply field
InfoReplies == {Absent, 0, 90000, 97000}

NullItem == -2   \* a null element of blocksData.items

MissingCount == -3   \* a block without transactionsCount

\* the /blocks reply after `.catch(() => null)`: the items array
NoBlocks == [present |-> FALSE, items |-> <<>>]

Blocks(items) == [present |-> TRUE, items |-> items]

BlocksReplies ==
    {NoBlocks} \cup
    { Blocks(items) : items \in { <<>>, <<100, 100>>, <<3, 4>>, <<250>>, <<199, 200>>,
                                   <<MissingCount, 7>>, <<5, NullItem>> } }

RECURSIVE SumCounts(_)
SumCounts(items) ==
    IF items = <<>> THEN 0
    ELSE (IF Head(items) = MissingCount THEN 0 ELSE Head(items)) + SumCounts(Tail(items))

\* reading block.transactionsCount of a null block throws
ReduceThrows(blocks) ==
    blocks.present /\ \E i \in 1..Len(blocks.items) : blocks.items[i] = NullItem

avgTxCount(blocks) ==
    IF blocks.present /\ Len(blocks.items) > 0
    THEN Frac(SumCounts(blocks.items), Len(blocks.items))
    ELSE Num(100)

\* variant: the average is added without the modulo
targetRatioUnwrapped(avg) == NAdd(Num(500), avg)

\* `500 + (avgTxCount % 200)`
targetRatio(avg) == NAdd(Num(500), NMod(avg, 200))

NoBody == [kind |-> "none"]

NoResponse == [status |-> 0, body |-> NoBody]

\* the 502 reply of oracle/price
OraclePriceError == [status |-> 502, body |-> [kind |-> "error"]]

OraclePriceOk(price, t) ==
    [status |-> 200, body |-> [kind |-> "price", price |-> price, timestamp |-> t]]

\* the payload of the catch branch of djed/state (amounts in thousands)
FallbackState(t) ==
    [status |-> 200,
     body |-> [kind |-> "state", success |-> TRUE,
               data |-> [ergPrice     |-> Price(1450),
                         baseReserves |-> Frac(146610, 1000),
                         reservesUSD  |-> Frac(2125845, 10000),
                         djedSupply   |-> Frac(40423, 1000),
                         reserveRatio |-> Frac(5259, 10),
                         djedPrice    |-> Num(1),
                         status       |-> "OPTIMAL",
                         timestamp    |-> t,
                         source       |-> "fallback"]]]

\* the payload of the try branch of djed/state; baseReserves, reservesUSD and
\* djedSupply are in thousands
SyntheticState(ergPrice, info, blocks, t) ==
    LET totalSupply  == IF Falsy(info) THEN DEFAULT_SUPPLY ELSE info
        avg          == avgTxCount(blocks)
        baseReserves == NMul(Num(totalSupply), Frac(15, 10000))
        target       == targetRatio(avg)
        djedSupply   == NDiv(NMul(NMul(baseReserves, Price(ergPrice)), Num(100)), target)
        reservesUSD  == NMul(baseReserves, Price(ergPrice))
        reserveRatio == NMul(NDiv(reservesUSD, djedSupply), Num(100))
    IN  [status |-> 200,
         body |-> [kind |-> "state", success |-> TRUE,
                   data |-> [ergPrice     |-> Price(ergPrice),
                             baseReserves |-> baseReserves,
                             reservesUSD  |-> reservesUSD,
                             djedSupply   |-> djedSupply,
                             reserveRatio |-> reserveRatio,
                             djedPrice    |-> Num(1),
                             status       |-> DjedStateStatus(reserveRatio),
                             timestamp    |-> t,
                             source       |-> "ergo-blockchain-synthetic"]]]

\* variant: the second source is always queried
NeedsSecondSourceAlways(ergPrice) == TRUE

\* `if (!ergPrice)` after the CoinGecko attempt
NeedsSecondSource(ergPrice) == Falsy(ergPrice)

\* `if (priceData?.ergo?.usd) ergPrice = priceData.ergo.usd`
TakePrice(ergPrice, reply) == IF Falsy(reply) THEN ergPrice ELSE reply

Endpoints == {"oracle/price", "djed/state"}

RouteIdle ==
    route = [endpoint |-> "none", pc |-> "idle", ergPrice |-> Absent,
             queried |-> <<>>, replies |-> <<>>, response |-> NoResponse]

\* GET is called with one of the two endpoints
RouteInit ==
    \E e \in Endpoints :
        route = [endpoint |-> e, pc |-> "coingecko", ergPrice |-> Absent,
                 queried |-> <<>>, replies |-> <<>>, response |-> NoResponse]

\* the CoinGecko request settles
CoinGeckoReply ==
    /\ route.pc = "coingecko"
    /\ \E reply \in PriceSourceReplies :
          LET ergPrice == TakePrice(route.ergPrice, reply)
          IN  route' = [route EXCEPT
                          !.ergPrice = ergPrice,
                          !.queried = Append(@, "coingecko"),
                          !.replies = Append(@, reply),
                          !.pc = IF NeedsSecondSource(ergPrice) THEN "defillama"
                                 ELSE "priced"]
    /\ UNCHANGED notRouteVars

\* the DefiLlama request settles
DefiLlamaReply ==
    /\ route.pc = "defillama"
    /\ \E reply \in PriceSourceReplies :
          route' = [route EXCEPT
                      !.ergPrice = TakePrice(route.ergPrice, reply),
                      !.queried = Append(@, "defillama"),
                      !.replies = Append(@, reply),
                      !.pc = "priced"]
    /\ UNCHANGED notRouteVars

\* oracle/price: both sources failed -> throw -> 502; otherwise the price
OraclePriceRespond ==
    /\ route.endpoint = "oracle/price"
    /\ route.pc = "priced"
    /\ route' = [route EXCEPT
                   !.response = IF Falsy(route.ergPrice) THEN OraclePriceError
                                ELSE OraclePriceOk(route.ergPrice, now),
                   !.pc = "responded"]
    /\ UNCHANGED notRouteVars

\* djed/state: the fallback price, the two network requests awaited jointly,
\* the synthetic metrics and the reply
DjedStateRespond ==
    /\ route.endpoint = "djed/state"
    /\ route.pc = "priced"
    /\ \E info \in InfoReplies, blocks \in BlocksReplies :
          LET ergPrice == IF Falsy(route.ergPrice) THEN FALLBACK_ERG_PRICE
                          ELSE route.ergPrice
          IN  route' = [route EXCEPT
                          !.ergPrice = ergPrice,
                          !.queried = @ \o <<"info", "blocks">>,
                          !.replies = @ \o <<info, blocks>>,
                          !.response = IF ReduceThrows(blocks) THEN FallbackState(now)
                                       ELSE SyntheticState(ergPrice, info, blocks, now),
                          !.pc = "responded"]
    /\ UNCHANGED notRouteVars

RouteNext ==
    \/ CoinGeckoReply
    \/ DefiLlamaReply
    \/ OraclePriceRespond
    \/ DjedStateRespond

-----------------------------------------------------------------------------
(* useDjedData: fetchWithRetry and fetchLiveData *)

MAX_RETRIES == 3

INITIAL_DELAY == 1000

RECURSIVE Pow2(_)
Pow2(n) == IF n = 0 THEN 1 ELSE 2 * Pow2(n - 1)

\* `initialDelay * Math.pow(2, attempt)`
BackoffDelay(attempt) == INITIAL_DELAY * Pow2(attempt)

CallNames == {"oracle/price", "info", "blocks"}

NoError == [kind |-> "null", attempt |-> -1]

\* a thrown error: a rejected fetch ("network") or a response that is not ok
\* ("http"), tagged with the attempt that raised it
ErrorKinds == {"network", "http"}

\* the bodies a successful response can carry, per endpoint
Bodies(name) ==
    CASE name = "oracle/price" -> {0, 1450}
      [] name = "info"         -> {0, 97000}
      [] name = "blocks"       -> {Blocks(<<>>), Blocks(<<3, 4>>), Blocks(<<5, NullItem>>)}

\* fetchWithRetry entered: the first fetch is in flight
NewCall ==
    [state |-> "fetching", attempt |-> 0, attempts |-> 1, delays |-> <<>>,
     lastError |-> NoError, value |-> Absent]

\* `return await response.json()`
CallResolves(call, body) == [call EXCEPT !.state = "resolved", !.value = body]

\* the catch block of the retry loop; after the last attempt the loop ends and
\* lastError is thrown
CallFails(call, kind) ==
    IF call.attempt < MAX_RETRIES - 1
    THEN [call EXCEPT !.lastError = [kind |-> kind, attempt |-> call.attempt],
                      !.delays = Append(@, BackoffDelay(call.attempt)),
                      !.state = "waiting"]
    ELSE [call EXCEPT !.lastError = [kind |-> kind, attempt |-> call.attempt],
                      !.state = "rejected"]

\* the backoff timer fires: next iteration of the loop, next fetch
CallRetries(call) ==
    [call EXCEPT !.state = "fetching", !.attempt = @ + 1, !.attempts = @ + 1]

\* lib/calculations.calculateReserveRatio, as the operation of section 4.1:
\* reserves * price / supply * 100, zero when the supply is not positive
calculateReserveRatio(baseReserves, price, supply) ==
    IF ~NLess(Num(0), supply) THEN Num(0)
    ELSE NMul(NDiv(NMul(baseReserves, price), supply), Num(100))

\* the literal returned by the catch block (amounts in thousands)
FallbackData ==
    [reserveRatio      |-> Num(525),
     baseReserves      |-> Frac(146610, 1000),
     oraclePrice       |-> Price(1450),
     sigUsdCirculation |-> Frac(40423, 1000),
     shenCirculation   |-> Frac(43983, 1000),
     systemStatus      |-> "NORMAL"]

\* the try block throws after the three values arrived: no price, or a null
\* block in the reduce
DeriveThrows(oraclePrice, blocks) == Falsy(oraclePrice) \/ ReduceThrows(blocks)

\* the data the try block returns when it does not throw
DeriveLiveData(oraclePrice, supply, blocks) ==
    LET totalSupply       == IF Falsy(supply) THEN DEFAULT_SUPPLY ELSE supply
        avg               == avgTxCount(blocks)
        baseReserves      == NMul(Num(totalSupply), Frac(15, 10000))
        target            == targetRatio(avg)
        sigUsdCirculation ==
            NDiv(NMul(NMul(baseReserves, Price(oraclePrice)), Num(100)), target)
        reserveRatio      ==
            calculateReserveRatio(baseReserves, Price(oraclePrice), sigUsdCirculation)
    IN  [reserveRatio      |-> reserveRatio,
         baseReserves      |-> baseReserves,
         oraclePrice       |-> Price(oraclePrice),
         sigUsdCirculation |-> sigUsdCirculation,
         shenCirculation   |-> NMul(baseReserves, Frac(3, 10)),
         systemStatus      |-> determineSystemStatus(reserveRatio)]

NoOutcome == [kind |-> "pending", data |-> "none"]

\* variant: the error is rethrown to the caller
OnErrorRethrow(data) == [kind |-> "rejected", data |-> "none"]

\* the catch block of fetchLiveData
OnError(data) == [kind |-> "resolved", data |-> data]

\* Promise.all over the three calls: rejected as soon as one is rejected,
\* fulfilled when all are resolved
PromiseAll(calls) ==
    IF \E c \in CallNames : calls[c].state = "rejected" THEN "rejected"
    ELSE IF \A c \in CallNames : calls[c].state = "resolved" THEN "fulfilled"
    ELSE "pending"

\* what fetchLiveData returns once Promise.all has settled
LiveOutcome(calls) ==
    IF PromiseAll(calls) = "rejected" THEN OnError(FallbackData)
    ELSE IF DeriveThrows(calls["oracle/price"].value, calls["blocks"].value)
         THEN OnError(FallbackData)
    ELSE [kind |-> "resolved",
          data |-> DeriveLiveData(calls["oracle/price"].value, calls["info"].value,
                                  calls["blocks"].value)]

LiveIdle == live = [pc |-> "idle"]

\* fetchLiveData is called: the three fetchWithRetry calls are started, each
\* with its first fetch in flight, and awaited jointly
LiveInit ==
    live = [pc |-> "awaiting", calls |-> [c \in CallNames |-> NewCall],
            outcome |-> NoOutcome]

\* the state of fetchLiveData once call c has moved to `call`
LiveAfter(c, call) ==
    LET calls == [live.calls EXCEPT ![c] = call]
    IN  IF live.pc = "awaiting" /\ PromiseAll(calls) # "pending"
        THEN [pc |-> "returned", calls |-> calls, outcome |-> LiveOutcome(calls)]
        ELSE [live EXCEPT !.calls = calls]

\* a fetch gets an ok response with a JSON body
FetchSucceeds ==
    /\ \E c \in CallNames :
          /\ live.calls[c].state = "fetching"
          /\ \E body \in Bodies(c) : live' = LiveAfter(c, CallResolves(live.calls[c], body))
    /\ UNCHANGED notLiveVars

\* a fetch rejects or its response is not ok
FetchFails ==
    /\ \E c \in CallNames :
          /\ live.calls[c].state = "fetching"
          /\ \E kind \in ErrorKinds : live' = LiveAfter(c, CallFails(live.calls[c], kind))
    /\ UNCHANGED notLiveVars

\* a backoff delay elapses and the call fetches again
BackoffElapses ==
    /\ \E c \in CallNames :
          /\ live.calls[c].state = "waiting"
          /\ live' = LiveAfter(c, CallRetries(live.calls[c]))
    /\ UNCHANGED notLiveVars

LiveNext ==
    \/ FetchSucceeds
    \/ FetchFails
    \/ BackoffElapses

(* SimulationModal: the price slider and the risk scenarios *)

Null == -4   \* the null of frozenPrice and forcedRatio

\* a prop or state holding a price in thousandths, as a JavaScript number
PropPrice(p) == IF p = Absent THEN Undefined ELSE Price(p)

Scenarios == {"flash_crash", "oracle_freeze", "bank_run", "none"}

\* the values the price slider is moved to (range 0.10 to 10.00)
SliderPrices == {500, 1000, 2000}

BANK_RUN_RATIO == 350

NoProtocolState == [loaded |-> FALSE, baseReserves |-> 0, stablecoinSupply |-> 0]

\* what the fetch of djed/state on mount leaves in protocolState: nothing when
\* the request fails or the protocol is not deployed, else reserves and supply
ProtocolStateReplies ==
    {NoProtocolState, [loaded |-> TRUE, baseReserves |-> 1000, stablecoinSupply |-> 290]}

calculateRatioFromPrice(m, price) ==
    IF ~m.protocolState.loaded
    THEN IF m.currentReserveRatio > 0
         THEN NMul(Num(m.currentReserveRatio),
                   NDiv(PropPrice(price), PropPrice(m.currentPrice)))
         ELSE Num(0)
    ELSE LET reservesUSD == NMul(Num(m.protocolState.baseReserves), PropPrice(price))
         IN  NMul(NDiv(reservesUSD, Num(m.protocolState.stablecoinSupply)), Num(100))

\* a call of onSimulatedPriceChange(price, ratio, status)
PriceNotice(price, ratio, status) ==
    [callback |-> "onSimulatedPriceChange", price |-> price, ratio |-> ratio,
     status |-> status]

\* a call of onScenarioActivate(scenario)
ScenarioNotice(scenario) == [callback |-> "onScenarioActivate", scenario |-> scenario]

ModalIdle == modal = [pc |-> "unmounted"]

\* the modal is mounted with the props of its parent; the fetch of the
\* protocol state is under way
ModalInit ==
    \E currentPrice \in {Absent, 0, 1450}, currentReserveRatio \in {Absent, 0, 525} :
        modal = [pc                  |-> "fetching",
                 currentPrice        |-> currentPrice,
                 currentReserveRatio |-> currentReserveRatio,
                 simulatedPrice      |-> currentPrice,
                 frozenPrice         |-> Null,
                 forcedRatio         |-> Null,
                 protocolState       |-> NoProtocolState,
                 simulationScenario  |-> "none",
                 notices             |-> <<>>,
                 events              |-> 0,
                 lastEvent           |-> "mount"]

MaxModalEvents == 3

\* fetchProtocolState settles
ProtocolStateLoads ==
    /\ modal.pc = "fetching"
    /\ \E reply \in ProtocolStateReplies :
          modal' = [modal EXCEPT !.pc = "mounted", !.protocolState = reply]
    /\ UNCHANGED notModalVars

\* the application store's simulationScenario changes (the store is written
\* outside the component)
StoreScenarioChanges ==
    /\ modal.pc # "unmounted"
    /\ \E s \in Scenarios \ {modal.simulationScenario} :
          modal' = [modal EXCEPT !.simulationScenario = s]
    /\ UNCHANGED notModalVars

handleSliderChange ==
    /\ modal.pc # "unmounted"
    /\ modal.events < MaxModalEvents
    /\ modal.simulationScenario # "oracle_freeze"   \* the slider is disabled
    /\ \E newPrice \in SliderPrices :
          LET newRatio  == calculateRatioFromPrice(modal, newPrice)
              newStatus == determineSystemStatus(newRatio)
          IN  modal' = [modal EXCEPT
                           !.simulatedPrice = newPrice,
                           !.forcedRatio = Null,
                           !.notices = Append(@, PriceNotice(newPrice, newRatio, newStatus)),
                           !.events = @ + 1,
                           !.lastEvent = "slider"]
    /\ UNCHANGED notModalVars

\* the state and the notices after handleScenarioActivate(scenario)
AfterScenario(m, scenario) ==
    LET basePrice == m.currentPrice
        baseRatio == m.currentReserveRatio
        told      == [m EXCEPT !.notices = Append(@, ScenarioNotice(scenario))]
    IN  IF Falsy(basePrice) \/ Falsy(baseRatio) THEN told
        ELSE CASE scenario = "flash_crash" ->
                    LET crashPrice == basePrice \div 2
                        newRatio   == calculateRatioFromPrice(m, crashPrice)
                    IN  [told EXCEPT
                            !.simulatedPrice = crashPrice,
                            !.forcedRatio = Null,
                            !.notices = Append(@, PriceNotice(crashPrice, newRatio,
                                                   determineSystemStatus(newRatio)))]
               [] scenario = "oracle_freeze" ->
                    [told EXCEPT !.frozenPrice = m.simulatedPrice]
               [] scenario = "bank_run" ->
                    [told EXCEPT
                        !.forcedRatio = BANK_RUN_RATIO,
                        !.notices = Append(@, PriceNotice(m.simulatedPrice,
                                               Num(BANK_RUN_RATIO), "CRITICAL"))]
               [] OTHER ->
                    [told EXCEPT
                        !.frozenPrice = Null,
                        !.forcedRatio = Null,
                        !.simulatedPrice = basePrice,
                        !.notices = Append(@, PriceNotice(basePrice, Num(baseRatio),
                                               determineSystemStatus(Num(baseRatio))))]

handleScenarioActivate ==
    /\ modal.pc # "unmounted"
    /\ modal.events < MaxModalEvents
    /\ \E scenario \in Scenarios :
          modal' = [AfterScenario(modal, scenario) EXCEPT
                       !.events = @ + 1,
                       !.lastEvent = scenario]
    /\ UNCHANGED notModalVars

ModalNext ==
    \/ ProtocolStateLoads
    \/ StoreScenarioChanges
    \/ handleSliderChange
    \/ handleScenarioActivate

(* useAppletRegistry: paged loading of the applet list *)

PAGE_SIZE == 20

\* lengths of the list that list_applets returns
FetchedCounts == {0, 5, PAGE_SIZE}

RejectReasons == {"Wallet not connected", "Failed to load applets"}

RegistryIdle == registry = [pc |-> "unmounted"]

\* the hook is mounted while the wallet is not connected: nothing is loaded
RegistryInit ==
    registry = [pc          |-> "mounted",
                isConnected |-> FALSE,
                applets     |-> <<>>,
                loading     |-> FALSE,
                error       |-> "null",
                currentPage |-> 0,
                hasMore     |-> TRUE,
                inFlight    |-> {},
                started     |-> 0,
                settled     |-> {}]

MaxLoads == 3

\* loadApplets(page, append) up to its await
StartLoad(r, page, append) ==
    [r EXCEPT !.loading = TRUE,
              !.error = "null",
              !.started = @ + 1,
              !.inFlight = @ \cup {[id |-> r.started + 1, page |-> page,
                                    append |-> append]}]

\* the wallet connects and the auto-load effect calls loadApplets()
WalletConnects ==
    /\ registry.pc = "mounted"
    /\ ~registry.isConnected
    /\ registry' = StartLoad([registry EXCEPT !.isConnected = TRUE], 0, FALSE)
    /\ UNCHANGED notRegistryVars

\* refresh(): loadApplets(0, false), whatever `loading` is
refresh ==
    /\ registry.pc = "mounted"
    /\ registry.isConnected
    /\ registry.started < MaxLoads
    /\ registry' = StartLoad(registry, 0, FALSE)
    /\ UNCHANGED notRegistryVars

\* loadMore(): loadApplets(currentPage + 1, true) unless loading or exhausted
loadMore ==
    /\ registry.pc = "mounted"
    /\ registry.isConnected
    /\ registry.started < MaxLoads
    /\ ~registry.loading /\ registry.hasMore
    /\ registry' = StartLoad(registry, registry.currentPage + 1, TRUE)
    /\ UNCHANGED notRegistryVars

\* executeContract resolves for one of the calls in flight
LoadResolves ==
    /\ registry.pc = "mounted"
    /\ \E call \in registry.inFlight, n \in FetchedCounts :
          LET fetchedApplets == [load |-> call.id, count |-> n]
          IN  registry' = [registry EXCEPT
                  !.applets = IF call.append THEN Append(@, fetchedApplets)
                              ELSE <<fetchedApplets>>,
                  !.hasMore = (n = PAGE_SIZE),
                  !.currentPage = call.page,
                  !.loading = FALSE,
                  !.inFlight = @ \ {call},
                  !.settled = @ \cup {[id |-> call.id, append |-> call.append,
                                       ok |-> TRUE, count |-> n]}]
    /\ UNCHANGED notRegistryVars

\* executeContract rejects for one of the calls in flight
LoadRejects ==
    /\ registry.pc = "mounted"
    /\ \E call \in registry.inFlight, reason \in RejectReasons :
          registry' = [registry EXCEPT
              !.error = IF reason = "Wallet not connected" THEN "null" ELSE reason,
              !.loading = FALSE,
              !.inFlight = @ \ {call},
              !.settled = @ \cup {[id |-> call.id, append |-> call.append,
                                   ok |-> FALSE, count |-> 0]}]
    /\ UNCHANGED notRegistryVars

RegistryNext ==
    \/ WalletConnects
    \/ refresh
    \/ loadMore
    \/ LoadResolves
    \/ LoadRejects

-----------------------------------------------------------------------------
(* Single applications of the calculations *)

NoResult == [fn |-> "none"]

CalcIdle == calcIn = NoResult /\ calcOut = NoResult

SignalInputs ==
    { [isDemoMode |-> demo, dexData |-> dexData, djedData |-> djedData] :
        demo \in BOOLEAN,
        dexData \in {NoDexData, DexReply(FALSE, 1020)}
                      \cup {DexReply(TRUE, p) : p \in {0} \cup (990..1025)},
        djedData \in {NoDjedData} \cup {DjedReply(p) : p \in {-1000, 0, 1000, 2000}} }

ApplySignal ==
    /\ calcIn \in SignalInputs
    /\ calcOut = NoResult
    /\ calcOut' = [fn |-> "useDexPrice",
                   result |-> useDexPrice(calcIn.isDemoMode, calcIn.dexData, calcIn.djedData)]
    /\ UNCHANGED <<calcIn, notCalcVars>>

\* process.env settings: fee and slippage in thousandths, gas in thousandths of
\* a dollar, default trade amount in dollars
Env(fee, slippage, gas, amount) ==
    [DEX_FEE_PCT          |-> Frac(fee, 1000),
     SLIPPAGE_PCT         |-> Frac(slippage, 1000),
     GAS_COST_USD         |-> Frac(gas, 1000),
     DEFAULT_TRADE_AMOUNT |-> Num(amount)]

ProfitInputs ==
    { [dexPrice |-> d, protocolPrice |-> p, tradeAmount |-> a, fee |-> e[1],
       slippage |-> e[2], gas |-> e[3]] :
        d \in {-1000, 0, 500, 980, 995, 1000, 1005, 1009, 1010, 1020, 1500},
        p \in {0, 980, 1000},
        a \in {Undefined, Num(-100), Num(0), Num(100)},
        e \in {<<3, 5, 500>>, <<0, 0, 0>>, <<3, 5, 0>>} }

ApplyNetProfit ==
    /\ calcIn \in ProfitInputs
    /\ calcOut = NoResult
    /\ calcOut' = [fn |-> "calculateNetProfit",
                   result |-> calculateNetProfit(
                       Price(calcIn.dexPrice), Price(calcIn.protocolPrice),
                       Price(calcIn.dexPrice - calcIn.protocolPrice), calcIn.tradeAmount,
                       Env(calcIn.fee, calcIn.slippage, calcIn.gas, 1000))]
    /\ UNCHANGED <<calcIn, notCalcVars>>

\* a node's condition and the snapshot it is evaluated on
ConditionInputs ==
    { [condition |-> [type |-> t, value |-> v],
       data |-> [NoData EXCEPT !.reserveRatio = r, !.djedPrice = p, !.ergPrice = e]] :
        t \in {"dsi_below", "dsi_above", "price_below", "price_above", "always", "custom"},
        v \in {Absent, 0, 450, 1000},
        r \in {Absent, 0, 350, 525},
        p \in {Absent, 0, 900, 1000, 1100},
        e \in {Absent, 1450} }

\* the condition check and the record of one executeNode call
ApplyCondition ==
    /\ calcIn \in ConditionInputs
    /\ calcOut = NoResult
    /\ LET node   == [id |-> "A", condition |-> calcIn.condition]
           should == ShouldExecute(node, calcIn.data)
       IN  calcOut' = [fn |-> "executeNode",
                       result |-> [shouldExecute |-> should,
                                   status |-> IF should THEN "success" ELSE "skipped",
                                   output |-> IF should THEN generateOutput(calcIn.data)
                                              ELSE "null"]]
    /\ UNCHANGED <<calcIn, notCalcVars>>

\* reserve ratios in tenths of a percent
StatusInputs == { [tenths |-> n] : n \in (-5..5) \cup (1950..2050) \cup (3950..4050) \cup {5259} }

ApplyDjedStateStatus ==
    /\ calcIn \in StatusInputs
    /\ calcOut = NoResult
    /\ calcOut' = [fn |-> "djed/state", result |-> DjedStateStatus(Frac(calcIn.tenths, 10))]
    /\ UNCHANGED <<calcIn, notCalcVars>>

ApplyModalStatus ==
    /\ calcIn \in StatusInputs
    /\ calcOut = NoResult
    /\ calcOut' = [fn |-> "SimulationModal",
                   result |-> determineSystemStatus(Frac(calcIn.tenths, 10))]
    /\ UNCHANGED <<calcIn, notCalcVars>>

-----------------------------------------------------------------------------
(* Specifications *)

\* a workflow run that has not been started
WfIdle ==
    /\ workflow = [nodes |-> <<>>, connections |-> <<>>]
    /\ protocolStatus = "undefined"
    /\ wfPc = "idle"
    /\ realTimeData = NoData
    /\ callStack = <<>>
    /\ executedNodes = {}
    /\ nodeExecutions = <<>>
    /\ logStatus = "none"
    /\ fetchCount = 0
    /\ wfClock = 0

Init == WfInit /\ ArbInit /\ CalcIdle /\ RouteIdle /\ LiveIdle /\ ModalIdle /\ RegistryIdle

SpecWf == Init /\ [][WfNext]_vars

\* every await of the run (the data fetch, each node's simulated delay)
\* completes, so a run that can take a step eventually takes one
SpecWfLive == Init /\ [][WfNext]_vars /\ WF_vars(WfNext)

InitArb == WfIdle /\ ArbInit /\ CalcIdle /\ RouteIdle /\ LiveIdle /\ ModalIdle /\ RegistryIdle

SpecArb == InitArb /\ [][ArbNext]_vars

SpecPoll == InitArb /\ [][PollNext]_vars

SpecRefresh == InitArb /\ [][RefreshNext]_vars

InitSignal ==
    /\ WfIdle /\ ArbInit /\ calcIn \in SignalInputs /\ calcOut = NoResult
    /\ RouteIdle /\ LiveIdle /\ ModalIdle /\ RegistryIdle

SpecSignal == InitSignal /\ [][ApplySignal]_vars

InitProfit ==
    /\ WfIdle /\ ArbInit /\ calcIn \in ProfitInputs /\ calcOut = NoResult
    /\ RouteIdle /\ LiveIdle /\ ModalIdle /\ RegistryIdle

SpecProfit == InitProfit /\ [][ApplyNetProfit]_vars

InitCondition ==
    /\ WfIdle /\ ArbInit /\ calcIn \in ConditionInputs /\ calcOut = NoResult
    /\ RouteIdle /\ LiveIdle /\ ModalIdle /\ RegistryIdle

SpecCondition == InitCondition /\ [][ApplyCondition]_vars

InitRoute == WfIdle /\ ArbInit /\ CalcIdle /\ RouteInit /\ LiveIdle /\ ModalIdle /\ RegistryIdle

SpecRoute == InitRoute /\ [][RouteNext]_vars

InitLive == WfIdle /\ ArbInit /\ CalcIdle /\ RouteIdle /\ LiveInit /\ ModalIdle /\ RegistryIdle

SpecLive == InitLive /\ [][LiveNext]_vars

InitStatus ==
    /\ WfIdle /\ ArbInit /\ calcIn \in StatusInputs /\ calcOut = NoResult
    /\ RouteIdle /\ LiveIdle /\ ModalIdle /\ RegistryIdle

StatusNext == ApplyDjedStateStatus \/ ApplyModalStatus

SpecStatus == InitStatus /\ [][StatusNext]_vars


InitModal ==
    /\ WfIdle /\ ArbInit /\ CalcIdle /\ RouteIdle /\ LiveIdle
    /\ ModalInit /\ RegistryIdle

SpecModal == InitModal /\ [][ModalNext]_vars

InitRegistry ==
    /\ WfIdle /\ ArbInit /\ CalcIdle /\ RouteIdle /\ LiveIdle
    /\ ModalIdle /\ RegistryInit

SpecRegistry == InitRegistry /\ [][RegistryNext]_vars

-----------------------------------------------------------------------------
(* Properties of the workflow executor *)

RecordsOf(id) == {i \in 1..Len(nodeExecutions) : nodeExecutions[i].nodeId = id}

\* C1: with protocolStatus CRITICAL the run returns exactly one record, failed,
\* naming the policy gate, the log is failed and no workflow node executes or
\* gets a record; with any other protocolStatus the run is never blocked.
C1_PolicyGate ==
    /\ (protocolStatus = "CRITICAL" /\ wfPc # "pending") =>
          /\ wfPc = "blocked"
          /\ Len(nodeExecutions) = 1
          /\ nodeExecutions[1].nodeId = PolicyNodeId
          /\ nodeExecutions[1].status = "failed"
          /\ logStatus = "failed"
          /\ executedNodes = {}
          /\ \A id \in NodeIdsOf(workflow) : RecordsOf(id) = {}
    /\ protocolStatus # "CRITICAL" =>
          /\ wfPc # "blocked"
          /\ RecordsOf(PolicyNodeId) = {}

C1_Witness ==
    wfPc = "blocked" /\ Len(workflow.nodes) >= 2 /\ Len(workflow.connections) >= 2

\* C2: one run produces at most one execution record per node id, also on
\* diamonds, cycles and self-loops.
C2_AtMostOneRecordPerNode ==
    \A i, j \in 1..Len(nodeExecutions) :
        i # j => nodeExecutions[i].nodeId # nodeExecutions[j].nodeId

IsDiamond(wf) ==
    /\ Len(wf.nodes) = 4
    /\ \A k \in 1..4 : \E i \in 1..Len(wf.connections) :
          wf.connections[i] = CandidateEdges[k]

C2_Witness ==
    /\ wfPc = "done"
    /\ IsDiamond(workflow)
    /\ Cardinality(RecordsOf("D")) = 1
    /\ \A i \in 1..Len(nodeExecutions) : nodeExecutions[i].status = "success"

\* C3 as stated: a non-blocked run that returned has exactly one record for
\* every node of the workflow.
C3_EveryNodeHasOneRecord ==
    wfPc = "done" =>
        \A id \in NodeIdsOf(workflow) : Cardinality(RecordsOf(id)) = 1

\* ids reached from the entry nodes over connections that leave a node whose
\* condition holds
RECURSIVE ReachedBySuccess(_, _, _)
ReachedBySuccess(wf, data, S) ==
    LET step == {wf.connections[i].to : i \in
                   {k \in 1..Len(wf.connections) :
                      /\ wf.connections[k].from \in S
                      /\ wf.connections[k].to \in NodeIdsOf(wf)
                      /\ ShouldExecute(FindNode(wf, wf.connections[k].from), data)}}
    IN  IF step \subseteq S THEN S ELSE ReachedBySuccess(wf, data, S \cup step)

EntryIds(wf) == {EntryNodes(wf)[i].id : i \in 1..Len(EntryNodes(wf))}

\* C3 amended: a non-blocked run that returned has exactly one record for
\* every node that is an entry node or is reached over connections out of
\* nodes whose record is success, and no record for any other node.
C3_ReachedNodesHaveOneRecord ==
    wfPc = "done" =>
        \A id \in NodeIdsOf(workflow) :
            Cardinality(RecordsOf(id)) =
                IF id \in ReachedBySuccess(workflow, realTimeData, EntryIds(workflow))
                THEN 1 ELSE 0

C3_Witness ==
    /\ wfPc = "done"
    /\ \E i \in 1..Len(nodeExecutions) : nodeExecutions[i].status = "skipped"
    /\ \E i \in 1..Len(nodeExecutions) : nodeExecutions[i].status = "success"
    /\ \E id \in NodeIdsOf(workflow) : RecordsOf(id) = {}
    /\ Len(nodeExecutions) >= 2

\* a log has been returned to the caller
Returned == wfPc \in {"blocked", "done"}

RECURSIVE PendingCalls(_)
PendingCalls(stack) ==
    IF stack = <<>> THEN 0
    ELSE 1 + Len(Head(stack)) + PendingCalls(Tail(stack))

\* what is left to do: nodes not yet executed, each worth more than the calls
\* its execution can add, plus the pending calls and loops
WorkLeft ==
    LET n == Len(workflow.nodes)
        c == Len(workflow.connections) + 1
    IN  CASE wfPc = "pending"  -> n * c + n + 3
          [] wfPc = "fetching" -> n * c + n + 2
          [] wfPc = "running"  ->
                Cardinality(NodeIdsOf(workflow) \ executedNodes) * c
                    + PendingCalls(callStack)
          [] OTHER -> 0

\* C11: every run eventually returns a log, on cyclic graphs and self-loops
\* too: each step of the run strictly reduces the work left, a run that has
\* not returned can take a step, and under the completion of every await the
\* run reaches the return.
C11_RunTerminates ==
    /\ [][WorkLeft' < WorkLeft]_vars
    /\ [](WorkLeft >= 0)
    /\ [](Returned \/ ENABLED WfNext)
    /\ <>Returned

HasCycle(wf) ==
    /\ Len(wf.nodes) = 4
    /\ \A k \in {1, 3, 5, 6} : \E i \in 1..Len(wf.connections) :
          wf.connections[i] = CandidateEdges[k]

C11_Witness ==
    /\ wfPc = "done"
    /\ HasCycle(workflow)
    /\ Len(nodeExecutions) = 4
    /\ \A i \in 1..4 : nodeExecutions[i].status = "success"

\* ids that are the target of some connection
TargetIds(wf) == {wf.connections[i].to : i \in 1..Len(wf.connections)}

\* the declared nodes that are the target of no connection, in declaration order
RECURSIVE FreeNodes(_, _)
FreeNodes(wf, i) ==
    IF i > Len(wf.nodes) THEN <<>>
    ELSE (IF wf.nodes[i].id \in TargetIds(wf) THEN <<>> ELSE <<wf.nodes[i]>>)
         \o FreeNodes(wf, i + 1)

\* C12: the traversal starts from exactly the nodes that are the target of no
\* connection, in declaration order; when every node is a target and there is
\* a node, from the first declared node alone; an empty workflow produces no
\* record.
C12_EntryPoints ==
    /\ [][(wfPc = "fetching" /\ wfPc' = "running") =>
            LET free == FreeNodes(workflow, 1)
            IN  callStack' =
                  << IF free # <<>> THEN free
                     ELSE IF Len(workflow.nodes) > 0 THEN <<workflow.nodes[1]>>
                     ELSE <<>> >>]_vars
    /\ [](wfPc = "done" =>
            LET free == FreeNodes(workflow, 1)
            IN  /\ Len(workflow.nodes) = 0 => nodeExecutions = <<>>
                /\ Len(workflow.nodes) > 0 =>
                      /\ nodeExecutions # <<>>
                      /\ nodeExecutions[1].nodeId =
                            (IF free # <<>> THEN free[1].id ELSE workflow.nodes[1].id)
                /\ \A i \in 1..Len(free) : RecordsOf(free[i].id) # {}
                /\ \A i, j \in 1..Len(free) : i < j =>
                      \A a \in RecordsOf(free[i].id), b \in RecordsOf(free[j].id) : a < b
                /\ (free = <<>> /\ Len(workflow.nodes) > 0
                       /\ nodeExecutions[1].status = "skipped") =>
                      Len(nodeExecutions) = 1)

C12_Witness ==
    /\ wfPc = "done"
    /\ Len(workflow.nodes) = 4
    /\ FreeNodes(workflow, 1) = <<>>
    /\ nodeExecutions[1].nodeId = "A"
    /\ Len(nodeExecutions) = 4

\* the node's condition holds on the run's snapshot: it has none, or it is
\* "reserve ratio below v" and the snapshot's ratio is known and below v
ConditionHolds(node) ==
    \/ node.condition = NoCondition
    \/ /\ node.condition.type = "dsi_below"
       /\ realTimeData.reserveRatio # Absent
       /\ realTimeData.reserveRatio < node.condition.value

HasConnection(from, to) ==
    \E k \in 1..Len(workflow.connections) :
        workflow.connections[k] = [from |-> from, to |-> to]

\* C13: a node whose condition holds is recorded success with a non-null
\* output, a node whose condition does not hold is recorded skipped with null
\* output, and every recorded node that is not an entry point was reached
\* over a connection out of a node recorded success earlier.
C13_SuccessOrSkipped ==
    wfPc \in {"running", "done"} =>
        \A j \in 1..Len(nodeExecutions) :
            LET rec  == nodeExecutions[j]
                node == FindNode(workflow, rec.nodeId)
            IN  /\ rec.status \in {"success", "skipped"}
                /\ rec.status = "success" <=> ConditionHolds(node)
                /\ rec.status = "success" => rec.output # "null"
                /\ rec.status = "skipped" => rec.output = "null"
                /\ rec.nodeId \notin EntryIds(workflow) =>
                      \E i \in 1..(j - 1) :
                          /\ nodeExecutions[i].status = "success"
                          /\ HasConnection(nodeExecutions[i].nodeId, rec.nodeId)

C13_Witness ==
    /\ wfPc = "done"
    /\ Len(workflow.nodes) = 4
    /\ HasConnection("A", "B") /\ HasConnection("B", "D")
    /\ ~HasConnection("C", "D") /\ HasConnection("A", "C")
    /\ \E j \in RecordsOf("B") : nodeExecutions[j].status = "skipped"
    /\ \E j \in RecordsOf("C") : nodeExecutions[j].status = "success"
    /\ RecordsOf("D") = {}

\* the phase changes a run may make
RunTransitions ==
    { <<"pending", "blocked">>, <<"pending", "fetching">>,
      <<"fetching", "running">>, <<"running", "done">> }

\* C15: a run goes from pending through the policy check to blocked or to
\* running (fetch, then traversal) and from running to its return; the
\* returned status is failed iff some record is failed and completed
\* otherwise; a blocked run is failed, is final and never ran a node.
C15_RunStateMachine ==
    /\ [][/\ wfPc \notin {"blocked", "done"}
          /\ wfPc' # wfPc => <<wfPc, wfPc'>> \in RunTransitions]_vars
    /\ [](wfPc = "done" =>
            /\ logStatus \in {"failed", "completed"}
            /\ logStatus = "failed" <=>
                  \E i \in 1..Len(nodeExecutions) : nodeExecutions[i].status = "failed")
    /\ [](wfPc = "blocked" =>
            /\ logStatus = "failed"
            /\ executedNodes = {}
            /\ callStack = <<>>
            /\ \E i \in 1..Len(nodeExecutions) : nodeExecutions[i].status = "failed")
    /\ [](wfPc \in {"pending", "fetching", "running"} => logStatus = "none")

C15_Witness ==
    /\ wfPc = "done"
    /\ logStatus = "completed"
    /\ Len(nodeExecutions) >= 3
    /\ \E i \in 1..Len(nodeExecutions) : nodeExecutions[i].status = "skipped"
    /\ realTimeData = NoData

\* C16: a run that is not blocked calls fetchRealTimeData exactly once, after
\* the policy check and before any node executes; the snapshot is never
\* modified afterwards and every record is computed from it; a blocked run
\* makes no fetch.
C16_SingleSnapshot ==
    /\ [](wfPc \in {"pending", "fetching", "blocked"} => fetchCount = 0)
    /\ [](wfPc \in {"running", "done"} => fetchCount = 1)
    /\ [](protocolStatus = "CRITICAL" => fetchCount = 0 /\ realTimeData = NoData)
    /\ [](fetchCount = 0 => nodeExecutions \in {<<>>, <<blockedExecution>>}
                              /\ executedNodes = {})
    /\ [][fetchCount' # fetchCount =>
            /\ wfPc = "fetching"
            /\ nodeExecutions = <<>>
            /\ nodeExecutions' = <<>>]_vars
    /\ [][realTimeData' # realTimeData => fetchCount' # fetchCount]_vars
    /\ [](\A j \in 1..Len(nodeExecutions) :
            nodeExecutions[j].nodeId # PolicyNodeId =>
                LET node == FindNode(workflow, nodeExecutions[j].nodeId)
                IN  /\ nodeExecutions[j].status = "success"
                          <=> ShouldExecute(node, realTimeData)
                    /\ nodeExecutions[j].status = "success" =>
                          nodeExecutions[j].output = generateOutput(realTimeData))

C16_Witness ==
    /\ wfPc = "done"
    /\ fetchCount = 1
    /\ realTimeData.reserveRatio = 350
    /\ realTimeData.ergPrice = Absent
    /\ Len(nodeExecutions) = 4

\* C28: in a run that the policy gate lets through no record ever has status
\* failed, and the returned log has status completed, also when every fetch
\* of the snapshot failed and the outputs of the nodes report an error.
C28_NonBlockedRunCompletes ==
    ~PolicyBlocks(protocolStatus) =>
        /\ \A i \in 1..Len(nodeExecutions) : nodeExecutions[i].status # "failed"
        /\ logStatus \in {"none", "completed"}
        /\ wfPc = "done" => logStatus = "completed"

C28_Witness ==
    /\ wfPc = "done"
    /\ ~PolicyBlocks(protocolStatus)
    /\ realTimeData = NoData
    /\ logStatus = "completed"
    /\ \E i \in 1..Len(nodeExecutions) :
          nodeExecutions[i].status = "success" /\ nodeExecutions[i].output = "error"
    /\ \E i \in 1..Len(nodeExecutions) : nodeExecutions[i].status = "skipped"

\* the nodes that the connections out of node lead to, in declaration order
ChildrenInOrder(node) ==
    LET out == SelectSeq(workflow.connections,
                         LAMBDA c : c.from = node.id /\ c.to \in NodeIdsOf(workflow))
    IN  [k \in 1..Len(out) |-> FindNode(workflow, out[k].to)]

\* depth-first pre-order from the nodes of todo, given the ids visited so far
RECURSIVE PreOrderFrom(_, _)
PreOrderFrom(todo, visited) ==
    IF todo = <<>> THEN visited
    ELSE LET node == Head(todo)
         IN  IF \E i \in 1..Len(visited) : visited[i] = node.id
             THEN PreOrderFrom(Tail(todo), visited)
             ELSE PreOrderFrom((IF ConditionHolds(node) THEN ChildrenInOrder(node)
                                ELSE <<>>) \o Tail(todo),
                               Append(visited, node.id))

RecordedIds == [i \in 1..Len(nodeExecutions) |-> nodeExecutions[i].nodeId]

\* C29: the records of a run that is not blocked appear in depth-first
\* pre-order (children in the order of their connections, descending only
\* below a success), every recorded node that is not an entry point has a
\* predecessor recorded success earlier, and the nodes execute strictly one
\* after another: each execution takes time and ends before the next starts.
C29_PreOrderOneAtATime ==
    wfPc \in {"running", "done"} =>
        LET order == PreOrderFrom(EntryNodes(workflow), <<>>)
        IN  /\ Len(RecordedIds) <= Len(order)
            /\ RecordedIds = SubSeq(order, 1, Len(RecordedIds))
            /\ wfPc = "done" => RecordedIds = order
            /\ \A j \in 1..Len(nodeExecutions) :
                  /\ nodeExecutions[j].startTime < nodeExecutions[j].endTime
                  /\ \A i \in 1..(j - 1) :
                        nodeExecutions[i].endTime <= nodeExecutions[j].startTime
                  /\ nodeExecutions[j].nodeId \notin EntryIds(workflow) =>
                        \E i \in 1..(j - 1) :
                            /\ nodeExecutions[i].status = "success"
                            /\ HasConnection(nodeExecutions[i].nodeId,
                                             nodeExecutions[j].nodeId)

\* the diamond A -> B, A -> C, B -> D, C -> D ran to its end: D was reached
\* below B, before C
C29_Witness ==
    /\ wfPc = "done"
    /\ IsDiamond(workflow)
    /\ RecordedIds = <<"A", "B", "D", "C">>
    /\ \A i \in 1..4 : nodeExecutions[i].status = "success"
    /\ nodeExecutions[4].startTime = nodeExecutions[3].endTime

-----------------------------------------------------------------------------
(* Properties of the arbitrage tracker *)

EffectRan == ticks' # ticks

\* the effect ran with a live signal and |spreadPercent| >= 0.5
LiveTick ==
    /\ EffectRan
    /\ hook'.signal # "NO CLEAR EDGE"
    /\ hook'.protocolPrice > 0
    /\ 200 * Abs(hook'.spread) >= hook'.protocolPrice

\* entry e is the opportunity detected by the tick that just ran
IsNewDetection(e) ==
    /\ e.id = now
    /\ e.timestamp = now
    /\ e.status = "detected"
    /\ e.signal = hook'.signal
    /\ e.dexPrice = hook'.dexPrice
    /\ e.spreadPercent = hook'.spreadPercent

SameButStatus(e, f) == [e EXCEPT !.status = "-"] = [f EXCEPT !.status = "-"]

\* C4: the history never holds more than 20 entries and is ordered newest
\* first; after 25 consecutive significant-change ticks it holds exactly 20
\* entries, the detections of the 20 latest ticks.
C4_HistoryBounded ==
    /\ Len(opportunityHistory) <= 20
    /\ \A i, j \in 1..Len(opportunityHistory) :
          i < j => opportunityHistory[i].timestamp >= opportunityHistory[j].timestamp
    /\ sigRun >= 25 =>
          /\ Len(opportunityHistory) = 20
          /\ \A i \in 1..20 :
                opportunityHistory[i].id = now - (i - 1) * (now \div ticks)

C4_Witness ==
    /\ sigRun >= 25
    /\ Len(opportunityHistory) = 20
    /\ opportunityHistory[20].status = "expired"

\* C5 as stated: after every run of the effect no entry older than 300000 ms
\* is still detected, and with a live signal an entry aged at most 299000 ms
\* that was detected stays detected.
C5_ExpiredOnEveryTick ==
    [][EffectRan =>
        /\ \A i \in 1..Len(opportunityHistory') :
              opportunityHistory'[i].status = "detected" =>
                  now - opportunityHistory'[i].timestamp <= 300000
        /\ LiveTick =>
              LET prev  == opportunityHistory
                  next  == opportunityHistory'
                  \* the head was replaced (shift 0) or a new head was added
                  shift == IF Len(next) = Len(prev) THEN 0 ELSE 1
              IN  \A i \in 2..Len(prev) :
                      (/\ i + shift <= Len(next)
                       /\ prev[i].status = "detected"
                       /\ now - prev[i].timestamp <= 299000)
                      => next[i + shift].status = "detected"]_vars

\* C6: a tick without signal turns every detected entry into expired and
\* changes nothing else: same length, same order, same other fields.
C6_NoSignalExpiresAll ==
    [][(EffectRan /\ hook'.signal = "NO CLEAR EDGE") =>
        /\ Len(opportunityHistory') = Len(opportunityHistory)
        /\ \A i \in 1..Len(opportunityHistory) :
              /\ opportunityHistory'[i].status = "expired"
              /\ SameButStatus(opportunityHistory'[i], opportunityHistory[i])]_vars

C6_Witness ==
    /\ ticks > 0
    /\ hook.signal = "NO CLEAR EDGE"
    /\ Len(opportunityHistory) >= 2
    /\ \A i \in 1..Len(opportunityHistory) : opportunityHistory[i].status = "expired"
    /\ opportunityHistory[1].timestamp = now

\* C7 as stated: on a live tick the head entry is replaced in place exactly
\* when the history is non-empty, the spread moved by at most 0.1 points and
\* less than 60 seconds passed since the head was detected; otherwise a new
\* entry is prepended and the list cut to 20.
C7_ReplaceOrPrepend ==
    [][LiveTick =>
        LET prev == opportunityHistory
            next == opportunityHistory'
            same == /\ prev # <<>>
                    /\ NLeq(NAbs(NSub(prev[1].spreadPercent, hook'.spreadPercent)), Frac(1, 10))
                    /\ now - prev[1].timestamp < 60000
        IN  IF same
            THEN /\ Len(next) = Len(prev)
                 /\ IsNewDetection(next[1])
                 /\ Tail(next) = Tail(prev)
            ELSE /\ Len(next) = (IF Len(prev) + 1 > 20 THEN 20 ELSE Len(prev) + 1)
                 /\ IsNewDetection(next[1])
                 /\ \A i \in 2..Len(next) : SameButStatus(next[i], prev[i - 1])]_vars

\* C21: no two entries of the history share an id, whatever the sequence of
\* ticks, also when two detections happen within one clock millisecond.
C21_UniqueIds ==
    \A i, j \in 1..Len(opportunityHistory) :
        opportunityHistory[i].id = opportunityHistory[j].id => i = j

\* C26: once the effect ran, a hook without DEX price (effective price 0)
\* reports NO CLEAR EDGE, and no entry of the history has dexPrice 0.
C26_NoEdgeWithoutDexPrice ==
    ticks > 0 =>
        /\ hook.dexPrice = 0 => hook.signal = "NO CLEAR EDGE"
        /\ \A i \in 1..Len(opportunityHistory) : opportunityHistory[i].dexPrice # 0

\* C27: an entry that is refreshed in place on successive ticks is expired
\* once a tick runs more than 300 s after the entry's first detection: the
\* refresh does not restart the entry's age.
C27_RefreshedEntryExpires ==
    (ticks > 0 /\ now - firstDetected > 300000) =>
        opportunityHistory[1].status = "expired"

-----------------------------------------------------------------------------
(* Properties of the route handler *)

\* the reply of source `name`, for a source that was queried
ReplyOf(name) ==
    route.replies[CHOOSE i \in 1..Len(route.queried) : route.queried[i] = name]

Queried(name) == \E i \in 1..Len(route.queried) : route.queried[i] = name

TimesQueried(name) == Cardinality({i \in 1..Len(route.queried) : route.queried[i] = name})

\* the source was queried and yielded no price
NoPriceFrom(name) == Queried(name) /\ ReplyOf(name) \in {Absent, 0}

\* C18: oracle/price queries CoinGecko first and DefiLlama only when
\* CoinGecko yielded no price, each at most once; it answers 200 with the
\* price of the first source that yielded one and a timestamp, and 502
\* exactly when both sources yielded none; the price is never a literal.
C18_OraclePrice ==
    route.endpoint = "oracle/price" =>
        /\ route.queried \in {<<>>, <<"coingecko">>, <<"coingecko", "defillama">>}
        /\ Queried("defillama") <=>
              (route.pc \in {"priced", "responded"} /\ NoPriceFrom("coingecko"))
        /\ route.pc \in {"priced", "responded"} => Queried("coingecko")
        /\ route.pc = "responded" =>
              LET r == route.response
              IN  /\ r.status \in {200, 502}
                  /\ r.status = 502 <=>
                        (NoPriceFrom("coingecko") /\ NoPriceFrom("defillama"))
                  /\ r.status = 502 => r.body.kind = "error"
                  /\ r.status = 200 =>
                        /\ r.body.kind = "price"
                        /\ r.body.timestamp = now
                        /\ r.body.price =
                              (IF ~NoPriceFrom("coingecko") THEN ReplyOf("coingecko")
                               ELSE ReplyOf("defillama"))
        /\ route.pc # "responded" => route.response = NoResponse

C18_Witness ==
    /\ route.endpoint = "oracle/price"
    /\ route.pc = "responded"
    /\ route.queried = <<"coingecko", "defillama">>
    /\ route.replies = <<0, 1500>>
    /\ route.response.status = 200
    /\ route.response.body.price = 1500

\* an upstream request of the djed/state handler failed
UpstreamFailed ==
    \/ NoPriceFrom("coingecko") /\ NoPriceFrom("defillama")
    \/ Queried("info") /\ ReplyOf("info") = Absent
    \/ Queried("blocks") /\ ~ReplyOf("blocks").present

\* C19 as stated: djed/state always answers 200 with success:true and a data
\* object, and whenever an upstream request failed the payload is the
\* hardcoded fallback payload, whose source is "fallback".
C19_FallbackOnUpstreamFailure ==
    (route.endpoint = "djed/state" /\ route.pc = "responded") =>
        LET r == route.response
        IN  /\ r.status = 200
            /\ r.body.kind = "state"
            /\ r.body.success
            /\ UpstreamFailed => (r = FallbackState(now) /\ r.body.data.source = "fallback")

\* the part of C19 that holds: never an error, always 200 with success:true
\* and a data object whose source is one of the two labels
DjedStateNeverFails ==
    (route.endpoint = "djed/state" /\ route.pc = "responded") =>
        LET r == route.response
        IN  /\ r.status = 200
            /\ r.body.kind = "state"
            /\ r.body.success
            /\ r.body.data.source \in {"fallback", "ergo-blockchain-synthetic"}

-----------------------------------------------------------------------------
(* Properties of the client-side data hook *)

\* attempts of the call that have failed so far
FailedAttempts(call) ==
    IF call.state \in {"waiting", "rejected"} THEN call.attempt + 1 ELSE call.attempt

CallSettled(call) == call.state \in {"resolved", "rejected"}

\* C17 as stated: each call makes at most 3 attempts, waits 1 s, 2 s and 4 s
\* after its first, second and third failed attempt, stops at the first
\* successful response, and rejects with the last error only after the third
\* failed attempt.
C17_RetryBackoff ==
    /\ [](live.pc # "idle" =>
            \A c \in CallNames :
                LET call == live.calls[c]
                IN  /\ call.attempts \in 1..3
                    /\ call.delays = Take(<<1000, 2000, 4000>>, FailedAttempts(call))
                    /\ call.state = "rejected" =>
                          /\ FailedAttempts(call) = 3
                          /\ call.lastError.attempt = 2
                    /\ call.state = "resolved" => call.attempts = FailedAttempts(call) + 1)
    /\ [][live.pc # "idle" =>
            \A c \in CallNames :
                CallSettled(live.calls[c]) => live'.calls[c] = live.calls[c]]_vars

\* the retry behaviour the calls do have: a delay of 1 s after the first and
\* of 2 s after the second failed attempt, none after the third
RetryBackoffTwoDelays ==
    /\ [](live.pc # "idle" =>
            \A c \in CallNames :
                LET call == live.calls[c]
                IN  /\ call.attempts \in 1..3
                    /\ call.delays = Take(<<1000, 2000>>, FailedAttempts(call))
                    /\ call.state = "rejected" =>
                          /\ FailedAttempts(call) = 3
                          /\ call.lastError.attempt = 2
                    /\ call.state = "resolved" => call.attempts = FailedAttempts(call) + 1)
    /\ [][live.pc # "idle" =>
            \A c \in CallNames :
                CallSettled(live.calls[c]) => live'.calls[c] = live.calls[c]]_vars

SomeCallRejected == \E c \in CallNames : live.calls[c].state = "rejected"

AllCallsResolved == \A c \in CallNames : live.calls[c].state = "resolved"

\* C20: fetchLiveData starts the three fetches together and returns nothing
\* before all are resolved or one is rejected; it never rejects; when a call
\* is rejected after its retries, or the price is missing, it resolves with
\* the fixed fallback values (reserveRatio 525, oraclePrice 1.45, NORMAL), and
\* data other than the fallback is built from three resolved calls.
C20_LiveDataNeverRejects ==
    /\ [](live.pc # "idle" => \A c \in CallNames : live.calls[c].attempts >= 1)
    /\ [](live.pc = "awaiting" =>
            /\ live.outcome = NoOutcome
            /\ ~SomeCallRejected
            /\ ~AllCallsResolved)
    /\ [](live.pc = "returned" =>
            /\ live.outcome.kind = "resolved"
            /\ (SomeCallRejected
                   \/ (AllCallsResolved /\ Falsy(live.calls["oracle/price"].value))) =>
                  /\ live.outcome.data = FallbackData
                  /\ live.outcome.data.reserveRatio = Num(525)
                  /\ live.outcome.data.oraclePrice = Frac(145, 100)
                  /\ live.outcome.data.systemStatus = "NORMAL"
            /\ live.outcome.data # FallbackData =>
                  /\ AllCallsResolved
                  /\ live.outcome.data.oraclePrice = Price(live.calls["oracle/price"].value))
    /\ [][live.pc = "returned" =>
            (live'.pc = "returned" /\ live'.outcome = live.outcome)]_vars

C20_Witness ==
    /\ live.pc = "returned"
    /\ live.calls["oracle/price"].state = "resolved"
    /\ live.calls["oracle/price"].value = 1450
    /\ live.calls["info"].state = "rejected"
    /\ live.calls["blocks"].state = "waiting"
    /\ live.outcome = [kind |-> "resolved", data |-> FallbackData]

-----------------------------------------------------------------------------
(* Properties of the calculations *)

\* C8: the signal is MINT iff spreadPercent >= 0.5, REDEEM iff
\* spreadPercent <= -0.5 and NONE otherwise, for spreadPercent =
\* (dexPrice - protocolPrice) / protocolPrice * 100; a protocol price <= 0
\* gives spreadPercent 0 and NONE.
C8_SignalClassification ==
    calcOut.fn = "useDexPrice" =>
        LET r  == calcOut.result
            d  == r.dexPrice
            p  == r.protocolPrice
            sp == r.spreadPercent
        IN  /\ r.signal \in {"MINT DJED", "REDEEM DJED", "NO CLEAR EDGE"}
            /\ p > 0 =>
                  /\ sp.k = "fin"
                  /\ sp.n * p = (d - p) * 100 * sp.d
                  /\ r.signal = "MINT DJED" <=> 200 * (d - p) >= p
                  /\ r.signal = "REDEEM DJED" <=> 200 * (d - p) <= -p
            /\ p <= 0 => sp = Num(0) /\ r.signal = "NO CLEAR EDGE"
            /\ (d = 1020 /\ p = 1000) => r.signal = "MINT DJED"
            /\ (d = 995 /\ p = 1000) => r.signal = "REDEEM DJED"
            /\ (d = 1002 /\ p = 1000) => r.signal = "NO CLEAR EDGE"

C8_Witness ==
    /\ calcOut.fn = "useDexPrice"
    /\ calcOut.result.dexPrice = 995
    /\ calcOut.result.protocolPrice = 1000
    /\ calcOut.result.signal = "REDEEM DJED"

\* C9: calculateNetProfit never returns a negative value and returns
\* max(0, grossProfit - costs) with grossProfit = notional / dexPrice *
\* |dexPrice - protocolPrice| and costs = notional * fee + notional *
\* slippage + gas; a dexPrice of 0 gives Infinity (NaN when the gross profit
\* is 0 * Infinity), never a negative number.
C9_NetProfitFloored ==
    calcOut.fn = "calculateNetProfit" =>
        LET r == calcOut.result
            d == calcIn.dexPrice
            a == IF calcIn.tradeAmount = Undefined THEN 1000 ELSE calcIn.tradeAmount.n
            gap == Abs(d - calcIn.protocolPrice)
            \* grossProfit - costs = N / D
            N == 1000 * a * gap - d * (a * (calcIn.fee + calcIn.slippage) + calcIn.gas)
            D == 1000 * d
        IN  /\ r.n >= 0
            /\ d # 0 =>
                  r = (IF Sign(N) * Sign(D) >= 0 THEN Frac(N, D) ELSE Num(0))
            /\ d = 0 =>
                  r = (IF a * gap = 0 THEN NaN ELSE IF a > 0 THEN Inf(1) ELSE Num(0))

C9_Witness ==
    /\ calcOut.fn = "calculateNetProfit"
    /\ calcIn.dexPrice = 1005
    /\ calcIn.protocolPrice = 1000
    /\ calcIn.tradeAmount = Undefined
    /\ calcIn.gas = 500
    /\ calcOut.result = Num(0)

\* C14: a dsi_below or dsi_above condition is false when the snapshot has no
\* reserve ratio, a price_below or price_above condition is false when it has
\* no Djed price, and the node is recorded skipped with null output; a
\* condition of these types is true only on a snapshot that holds its metric.
C14_AbsentMetricIsFalse ==
    calcOut.fn = "executeNode" =>
        LET t == calcIn.condition.type
            r == calcOut.result
            metric == IF t \in {"dsi_below", "dsi_above"} THEN calcIn.data.reserveRatio
                      ELSE calcIn.data.djedPrice
        IN  t \in {"dsi_below", "dsi_above", "price_below", "price_above"} =>
              /\ metric = Absent =>
                    /\ ~r.shouldExecute
                    /\ r.status = "skipped"
                    /\ r.output = "null"
              /\ r.shouldExecute => metric # Absent

C14_Witness ==
    /\ calcOut.fn = "executeNode"
    /\ calcIn.condition = [type |-> "price_above", value |-> Absent]
    /\ calcIn.data.djedPrice = Absent
    /\ calcIn.data.reserveRatio = 525
    /\ calcOut.result.status = "skipped"

C22_ConditionComparesWithValue ==
    calcOut.fn = "executeNode" =>
        LET t  == calcIn.condition.type
            v  == calcIn.condition.value
            dsi   == calcIn.data.reserveRatio
            price == calcIn.data.djedPrice
            should == calcOut.result.shouldExecute
        IN  /\ t = "always" => should
            /\ (dsi # Absent /\ price # Absent /\ v # Absent) =>
                  /\ t = "dsi_below"   => (should <=> dsi < v)
                  /\ t = "dsi_above"   => (should <=> dsi > v)
                  /\ t = "price_below" => (should <=> price < v)
                  /\ t = "price_above" => (should <=> price > v)

-----------------------------------------------------------------------------
(* Properties of the simulation modal *)

\* the notices added by the step
NewNotices == SubSeq(modal'.notices, Len(modal.notices) + 1, Len(modal'.notices))

\* C23: every onSimulatedPriceChange(price, ratio, status), after any sequence
\* of slider changes and scenario activations, carries the status that
\* classifies the ratio it carries and, when the protocol state is loaded, the
\* ratio baseReserves * price / stablecoinSupply * 100 of the price it carries.
C23_NoticeIsConsistent ==
    [][\A k \in 1..Len(NewNotices) :
          LET n == NewNotices[k]
          IN  n.callback = "onSimulatedPriceChange" =>
                /\ n.status = determineSystemStatus(n.ratio)
                /\ modal.protocolState.loaded =>
                      n.ratio = NMul(NDiv(NMul(Num(modal.protocolState.baseReserves),
                                               PropPrice(n.price)),
                                          Num(modal.protocolState.stablecoinSupply)),
                                     Num(100))]_vars

\* C24: when the modal has no real price or no real reserve ratio, activating
\* a scenario changes neither simulatedPrice, frozenPrice nor forcedRatio and
\* calls neither callback of the parent.
C24_NoDataNoSimulation ==
    [][(/\ modal'.events # modal.events
        /\ modal'.lastEvent \in Scenarios
        /\ Falsy(modal.currentPrice) \/ Falsy(modal.currentReserveRatio)) =>
            /\ modal'.simulatedPrice = modal.simulatedPrice
            /\ modal'.frozenPrice = modal.frozenPrice
            /\ modal'.forcedRatio = modal.forcedRatio
            /\ modal'.notices = modal.notices]_vars

-----------------------------------------------------------------------------
(* Properties of the applet registry hook *)

\* C25: loading is true exactly while a loadApplets call is in flight, for
\* every interleaving of refresh, loadMore and the auto-load, and once no
\* call is in flight the list is the result of the call started last.
C25_LoadingTracksInFlight ==
    registry.pc = "mounted" =>
        /\ registry.loading <=> registry.inFlight # {}
        /\ \A s \in registry.settled :
              (registry.inFlight = {} /\ s.id = registry.started /\ s.ok /\ ~s.append) =>
                  registry.applets = <<[load |-> s.id, count |-> s.count]>>

====
